---- MODULE Spec2Model ----
(***************************************************************************)
(* Model of scripts/rbi_scraper.py: the RBI press-release scraper.         *)
(*                                                                         *)
(* Texts are real strings.  TLC treats a string as the sequence of its     *)
(* one-character strings (Len, SubSeq, Head and \o work on them), so the   *)
(* regular expressions and the string methods of the source are modelled   *)
(* character by character.                                                 *)
(*                                                                         *)
(* Python's None and pandas' NaN are the two out-of-band values NONE and   *)
(* NAN; no text of a page equals either of them.                           *)
(***************************************************************************)
EXTENDS Integers, Sequences, FiniteSets, TLC

NONE == "<None>"
NAN == "<NaN>"

SOURCE_PAGE == "https://www.rbi.org.in/Scripts/BS_PressReleaseDisplay.aspx"
MAX_ENTRIES == 10
CSV_HEADER ==
    <<"id", "date", "title", "link", "pdf_link", "pdf_filename",
      "pdf_downloaded", "source_page", "created_at">>

(***************************************************************************)
(* Python string methods                                                   *)
(***************************************************************************)
Char(s, i) == SubSeq(s, i, i)

Digits == {"0", "1", "2", "3", "4", "5", "6", "7", "8", "9"}
UpperLetters ==
    {"A", "B", "C", "D", "E", "F", "G", "H", "I", "J", "K", "L", "M",
     "N", "O", "P", "Q", "R", "S", "T", "U", "V", "W", "X", "Y", "Z"}
LowerLetters ==
    {"a", "b", "c", "d", "e", "f", "g", "h", "i", "j", "k", "l", "m",
     "n", "o", "p", "q", "r", "s", "t", "u", "v", "w", "x", "y", "z"}
WordChars == Digits \cup UpperLetters \cup LowerLetters \cup {"_"}

IsDigit(c) == c \in Digits
IsSpace(c) == c \in {" ", "\t", "\n"}
\* \w of the re module
IsWordChar(c) == c \in WordChars

LowerChar(c) ==
    CASE c = "A" -> "a" [] c = "B" -> "b" [] c = "C" -> "c" [] c = "D" -> "d"
      [] c = "E" -> "e" [] c = "F" -> "f" [] c = "G" -> "g" [] c = "H" -> "h"
      [] c = "I" -> "i" [] c = "J" -> "j" [] c = "K" -> "k" [] c = "L" -> "l"
      [] c = "M" -> "m" [] c = "N" -> "n" [] c = "O" -> "o" [] c = "P" -> "p"
      [] c = "Q" -> "q" [] c = "R" -> "r" [] c = "S" -> "s" [] c = "T" -> "t"
      [] c = "U" -> "u" [] c = "V" -> "v" [] c = "W" -> "w" [] c = "X" -> "x"
      [] c = "Y" -> "y" [] c = "Z" -> "z"
      [] OTHER -> c

RECURSIVE str_lower(_)
str_lower(s) ==
    IF s = "" THEN "" ELSE LowerChar(Head(s)) \o str_lower(Tail(s))

RECURSIVE str_lstrip(_)
str_lstrip(s) ==
    IF s = "" THEN ""
    ELSE IF IsSpace(Head(s)) THEN str_lstrip(Tail(s)) ELSE s

RECURSIVE str_rstrip(_)
str_rstrip(s) ==
    IF s = "" THEN ""
    ELSE IF IsSpace(Char(s, Len(s))) THEN str_rstrip(SubSeq(s, 1, Len(s) - 1))
    ELSE s

str_strip(s) == str_rstrip(str_lstrip(s))

\* sub in s
str_contains(s, sub) ==
    \E i \in 1..(Len(s) - Len(sub) + 1) : SubSeq(s, i, i + Len(sub) - 1) = sub

str_startswith_at(s, i, sub) ==
    /\ i + Len(sub) - 1 <= Len(s)
    /\ SubSeq(s, i, i + Len(sub) - 1) = sub

\* s.split(): the maximal runs of non-whitespace characters
RECURSIVE str_split(_, _, _)
str_split(s, word, acc) ==
    IF s = ""
    THEN IF word = "" THEN acc ELSE Append(acc, word)
    ELSE IF IsSpace(Head(s))
         THEN str_split(Tail(s), "", IF word = "" THEN acc ELSE Append(acc, word))
         ELSE str_split(Tail(s), word \o Head(s), acc)

\* " ".join(parts)
RECURSIVE str_join(_)
str_join(parts) ==
    IF parts = <<>> THEN ""
    ELSE IF Len(parts) = 1 THEN parts[1]
    ELSE parts[1] \o " " \o str_join(Tail(parts))

\* " ".join(s.lower().split())
normalize_title(s) == str_join(str_split(str_lower(s), "", <<>>))

(***************************************************************************)
(* DATE & REGEX                                                            *)
(***************************************************************************)
CharAtIn(t, i, S) == i >= 1 /\ i <= Len(t) /\ Char(t, i) \in S

MonthInitials == {"j", "f", "m", "a", "s", "o", "n", "d"}
MonthNames ==
    {"jan", "january", "feb", "february", "mar", "march", "apr", "april",
     "may", "jun", "june", "jul", "july", "aug", "august", "sep", "sept",
     "september", "oct", "october", "nov", "november", "dec", "december"}

\* the month names that start at position j of t
MonthsFrom(t, j) ==
    IF CharAtIn(t, j, MonthInitials)
    THEN {m \in MonthNames : str_startswith_at(t, j, m)}
    ELSE {}

SetMax(S) == CHOOSE m \in S : \A o \in S : o <= m
SetMin(S) == CHOOSE m \in S : \A o \in S : m <= o

\* the position of the first element of seq that satisfies Test, or
\* Len(seq) + 1
FirstIndex(seq, Test(_)) ==
    SetMin({k \in 1..Len(seq) : Test(seq[k])} \cup {Len(seq) + 1})

\* the first text of seq that satisfies Test, or NONE
FirstWhere(seq, Test(_)) == Append(seq, NONE)[FirstIndex(seq, Test)]

\* n digits start at position i of t
DigitsAt(t, i, n) ==
    /\ i >= 1
    /\ i + n - 1 <= Len(t)
    /\ \A k \in 0..(n - 1) : IsDigit(Char(t, i + k))

\* \s* is greedy: the first position from j on that holds no whitespace
RECURSIVE SkipSpaces(_, _)
SkipSpaces(t, j) ==
    IF j <= Len(t) /\ IsSpace(Char(t, j)) THEN SkipSpaces(t, j + 1) ELSE j

\* (?:Jan(?:uary)?|...|Dec(?:ember)?)[.,]?\s*\d{4} matched at j of the
\* lower-cased text (re.I): the position of its last character, or 0
MonthCoreEnd(t, j) ==
    SetMax({0} \cup
        {SkipSpaces(t, j + Len(mp[1]) + mp[2]) + 3 : mp \in
            {c \in MonthsFrom(t, j) \X {0, 1} :
                /\ c[2] = 1 => CharAtIn(t, j + Len(c[1]), {".", ","})
                /\ DigitsAt(t, SkipSpaces(t, j + Len(c[1]) + c[2]), 4)}})

\* where the month name must start for a match that starts at i: after the
\* optional (?:\d{1,2}\s+)? when i holds one (a month name starts with no
\* digit, so the match then needs it), else at i itself
MonthCoreStart(t, i) ==
    SetMax({i} \cup
        {SkipSpaces(t, i + d) : d \in
            {n \in {1, 2} : DigitsAt(t, i, n) /\ CharAtIn(t, i + n, {" ", "\t", "\n"})}})

\* _MONTH_REGEX matched at i: the position of its last character, or 0
MonthMatchEnd(t, i) == MonthCoreEnd(t, MonthCoreStart(t, i))

\* group(0) of the leftmost match, or NONE; ends[i] is where the match that
\* starts at i ends, 0 when none starts there
LeftmostMatch(t, ends) ==
    LET starts == {i \in DOMAIN ends : ends[i] > 0} \cup {Len(t) + 1}
        first == SetMin(starts)
    IN  Append([k \in 1..Len(t) |-> SubSeq(t, k, ends[k])], NONE)[first]

\* _MONTH_REGEX.search(t): group(0), or NONE
MONTH_REGEX_search(t) ==
    LeftmostMatch(t, [i \in 1..Len(t) |-> MonthMatchEnd(str_lower(t), i)])

\* \d{1,2}[/\-]\d{1,2}[/\-]\d{2,4} matched at i: position of its last
\* character, or 0
NumericMatchEnd(t, i) ==
    SetMax({0} \cup
        {i + abc[1] + 1 + abc[2] + 1 + abc[3] - 1 : abc \in
            {v \in {1, 2} \X {1, 2} \X {2, 3, 4} :
                /\ DigitsAt(t, i, v[1])
                /\ CharAtIn(t, i + v[1], {"/", "-"})
                /\ DigitsAt(t, i + v[1] + 1, v[2])
                /\ CharAtIn(t, i + v[1] + 1 + v[2], {"/", "-"})
                /\ DigitsAt(t, i + v[1] + 1 + v[2] + 1, v[3])}})

\* _DATE_NUMERIC.search(t): group(0), or NONE
DATE_NUMERIC_search(t) ==
    LeftmostMatch(t, [i \in 1..Len(t) |-> NumericMatchEnd(t, i)])

\* (\d{4})\s*[-]\s*(\d{2,4}) matched at i: the position where group(1)
\* ends, or 0.  (The pattern's second dash, the en dash, is no character of
\* the modelled pages.)
YearRangeGroup1End(t, i) ==
    IF /\ DigitsAt(t, i, 4)
       /\ CharAtIn(t, SkipSpaces(t, i + 4), {"-"})
       /\ DigitsAt(t, SkipSpaces(t, SkipSpaces(t, i + 4) + 1), 2)
    THEN i + 3
    ELSE 0

\* _YEAR_RANGE_REGEX.search(t): group(1), or NONE
YEAR_RANGE_REGEX_search(t) ==
    LeftmostMatch(t, [i \in 1..Len(t) |-> YearRangeGroup1End(t, i)])

\* re.search(r'\b\d{4}\b', t)
YearWordSearch(t) ==
    \E i \in 1..Len(t) :
        /\ DigitsAt(t, i, 4)
        /\ i = 1 \/ ~IsWordChar(Char(t, i - 1))
        /\ i + 4 > Len(t) \/ ~IsWordChar(Char(t, i + 4))

LooksLikeDateStripped(t) ==
    \/ MONTH_REGEX_search(t) # NONE
    \/ DATE_NUMERIC_search(t) # NONE
    \/ YearWordSearch(t) /\ Len(t) <= 12

looks_like_date(text) ==
    IF text = NONE \/ text = "" THEN FALSE ELSE LooksLikeDateStripped(str_strip(text))

\* dateutil's parser.parse on the fragments the modelled pages hold,
\* rendered by strftime("%m-%d-%Y"); NONE where it raises
dateparser_parse(s) ==
    CASE s = "5 Jan 2026" -> "01-05-2026"
      [] s = "Dec 12, 2025" -> "12-12-2025"
      [] s = "11/12/2025" -> "11-12-2025"
      [] OTHER -> NONE

\* the four attempts of lines 75-108 in their order, the first that yields
\* a date winning; m, m2 and yr are what the three patterns found in t
ParseStripped(t, m, m2, yr) ==
    FirstWhere(<<dateparser_parse(m),
                 dateparser_parse(m2),
                 IF yr # NONE /\ yr # "0000" THEN "01-01-" \o yr ELSE NONE,
                 dateparser_parse(t)>>,
               LAMBDA d : d # NONE)

ParseDateStripped(t) ==
    ParseStripped(t, MONTH_REGEX_search(t), DATE_NUMERIC_search(t),
                  YEAR_RANGE_REGEX_search(t))

parse_date_to_mmddyyyy(text) ==
    IF text = NONE \/ text = "" THEN NONE ELSE ParseDateStripped(str_strip(text))

(***************************************************************************)
(* The parsed document.  An anchor is its text node, its href attribute    *)
(* (NONE when it has none) and its first img (alt and src; img = FALSE     *)
(* when it wraps none).  A cell is its own text followed by its anchors, a *)
(* row its cells and whether one of them is a th, a table its rows, a page *)
(* its tables in document order.                                           *)
(***************************************************************************)
Anchor(text, href) ==
    [text |-> text, href |-> href, img |-> FALSE, alt |-> "", src |-> ""]
ImgAnchor(href, alt, src) ==
    [text |-> "", href |-> href, img |-> TRUE, alt |-> alt, src |-> src]
Cell(text, anchors) == [text |-> text, anchors |-> anchors]
Row(th, tds) == [th |-> th, tds |-> tds]

RECURSIVE SeqConcat(_)
SeqConcat(ss) == IF ss = <<>> THEN <<>> ELSE Head(ss) \o SeqConcat(Tail(ss))

\* get_text(" ", strip=True): the stripped, non-empty text nodes joined
TextNodesJoined(nodes) ==
    str_join(SelectSeq([k \in 1..Len(nodes) |-> str_strip(nodes[k])],
                       LAMBDA n : n # ""))

CellTextNodes(td) ==
    <<td.text>> \o [k \in 1..Len(td.anchors) |-> td.anchors[k].text]
td_get_text(td) == TextNodesJoined(CellTextNodes(td))
tr_get_text(tr) ==
    TextNodesJoined(SeqConcat([k \in 1..Len(tr.tds) |-> CellTextNodes(tr.tds[k])]))
a_get_text(a) == TextNodesJoined(<<a.text>>)

\* tr.find_all("a"), tr.find("a"), tr.find_all("a", href=True)
tr_find_all_a(tr) == SeqConcat([k \in 1..Len(tr.tds) |-> tr.tds[k].anchors])
tr_has_a(tr) == tr_find_all_a(tr) # <<>>
tr_find_a(tr) == Head(tr_find_all_a(tr))
tr_find_all_a_href(tr) == SelectSeq(tr_find_all_a(tr), LAMBDA a : a.href # NONE)

\* requests.compat.urljoin(SOURCE_PAGE, href) for an absolute href, an empty
\* one and one relative to the page's directory
urljoin(href) ==
    IF str_startswith_at(href, 1, "http://") \/ str_startswith_at(href, 1, "https://")
    THEN href
    ELSE IF href = "" THEN SOURCE_PAGE
    ELSE "https://www.rbi.org.in/Scripts/" \o href

\* re.search(r'\bword\b', text, re.I)
WordSearch(text, word) ==
    LET lt == str_lower(text)
    IN  \E i \in 1..Len(lt) :
            /\ str_startswith_at(lt, i, word)
            /\ i = 1 \/ ~IsWordChar(Char(lt, i - 1))
            /\ i + Len(word) > Len(lt) \/ ~IsWordChar(Char(lt, i + Len(word)))

(***************************************************************************)
(* PDF LINK HELPER                                                         *)
(***************************************************************************)
HrefHasPdf(a) == str_contains(str_lower(str_strip(a.href)), ".pdf")
ImgMentionsPdf(a) ==
    a.img /\ (str_contains(str_lower(a.alt), "pdf") \/ str_contains(str_lower(a.src), "pdf"))
TextMentionsPdf(a) ==
    /\ WordSearch(a_get_text(a), "pdf") \/ WordSearch(a_get_text(a), "kb")
    /\ str_strip(a.href) # ""

\* the three loops of lines 114-134 over the anchors that carry an href: the
\* position of the first anchor the first loop accepts, else of the first the
\* second accepts, else of the first the third accepts, else Len(anchors) + 1
FirstFound(idxs, n) == Append(idxs, n + 1)[FirstIndex(idxs, LAMBDA k : k <= n)]

PdfAnchorIndex(anchors) ==
    FirstFound(<<FirstIndex(anchors, HrefHasPdf),
                 FirstIndex(anchors, ImgMentionsPdf),
                 FirstIndex(anchors, TextMentionsPdf)>>,
               Len(anchors))

PdfLinkAt(anchors, k) ==
    IF k > Len(anchors) THEN NONE ELSE urljoin(str_strip(anchors[k].href))

PdfLinkAmong(anchors) == PdfLinkAt(anchors, PdfAnchorIndex(anchors))

\* a variant that leaves the title hyperlink out of the search
find_pdf_link_in_rest(tr) ==
    PdfLinkAmong(SelectSeq(Tail(tr_find_all_a(tr)), LAMBDA a : a.href # NONE))

find_pdf_link_in_row(tr) == PdfLinkAmong(tr_find_all_a_href(tr))

(***************************************************************************)
(* HTML PARSING                                                            *)
(***************************************************************************)
\* tbl.find("a")
tbl_has_a(t) == \E k \in 1..Len(t) : tr_has_a(t[k])

\* the first table that holds an anchor; None is NO_TABLE, the table without
\* rows, which holds no anchor
NO_TABLE == <<>>
find_first_populated_table(soup) ==
    Append(soup, NO_TABLE)[FirstIndex(soup, tbl_has_a)]

\* lines 166-179: the date a hyperlink-free row sets as header date, or NONE
\* (the row's own text is tried first, then its cells in order, all under
\* the same test)
td_texts(tr) == [k \in 1..Len(tr.tds) |-> td_get_text(tr.tds[k])]

HeaderDate(tr) ==
    FirstWhere(<<tr_get_text(tr)>> \o td_texts(tr),
               LAMBDA c : looks_like_date(c) /\ Len(c) <= 40)

\* lines 189-199: header date, then the first date-like cell, then the title
\* (date_text stays the header date when all three are falsy)
TitleIfDated(title) ==
    IF title # NONE /\ MONTH_REGEX_search(title) # NONE THEN title ELSE NONE

\* a variant that prefers the row's own date-like cell to the header date
ItemDateTextCellFirst(tr, header_date, title) ==
    Append(<<FirstWhere(td_texts(tr), looks_like_date), header_date, TitleIfDated(title)>>,
           header_date)[
        FirstIndex(<<FirstWhere(td_texts(tr), looks_like_date), header_date,
                     TitleIfDated(title)>>,
                   LAMBDA d : d # NONE /\ d # "")]

FirstTruthy(attempts, default) ==
    Append(attempts, default)[FirstIndex(attempts, LAMBDA d : d # NONE /\ d # "")]

ItemDateText(tr, header_date, title) ==
    FirstTruthy(<<header_date, FirstWhere(td_texts(tr), looks_like_date), TitleIfDated(title)>>,
                header_date)

\* lines 181-201: the tuple an item row appends to results
ItemTuple(tr, header_date) ==
    LET a_title == tr_find_a(tr)
        text == a_get_text(a_title)
        title == IF text = "" THEN NONE ELSE text
        title_href == IF a_title.href = NONE THEN "" ELSE str_strip(a_title.href)
        link == IF title_href # "" THEN urljoin(title_href) ELSE NONE
    IN  [date_text |-> ItemDateText(tr, header_date, title),
         title |-> title,
         link |-> link,
         pdf_link |-> find_pdf_link_in_row(tr)]

\* which branch of the loop body a row takes
RowKind(tr) ==
    IF tr.th THEN "th"
    ELSE IF ~tr_has_a(tr)
         THEN IF HeaderDate(tr) # NONE THEN "header" ELSE "skip"
         ELSE "item"

(***************************************************************************)
(* The rows of the modelled pages                                          *)
(***************************************************************************)
ThRow == Row(TRUE, <<Cell("5 Jan 2026", <<Anchor("Archive", "archive.aspx")>>)>>)
\* a header-style row that holds a date and no hyperlink
ThDateRow == Row(TRUE, <<Cell("Dec 12, 2025", <<>>)>>)
HeaderDec == Row(FALSE, <<Cell("Dec 12, 2025", <<>>)>>)
\* the row's text is date-like but longer than 40 characters; its second cell
\* is a date
HeaderJan ==
    Row(FALSE, <<Cell("Press releases of the Reserve Bank of India", <<>>),
                 Cell(" 5 Jan 2026 ", <<>>)>>)
HeaderBad == Row(FALSE, <<Cell("31/31/2025", <<>>)>>)
\* date-like, longer than 40 characters, in one cell
NoteRow ==
    Row(FALSE, <<Cell("Statement on the measures of 11/12/2025 and later", <<>>)>>)
PlainRow == Row(FALSE, <<Cell("Press Releases", <<>>)>>)
ItemAlpha ==
    Row(FALSE, <<Cell("", <<Anchor("Alpha", "a.aspx?prid=1")>>),
                 Cell("11/12/2025", <<>>),
                 Cell("", <<Anchor("PDF 120 kb", "a.aspx?dl=1"),
                            Anchor("", "docs/a.PDF")>>)>>)
\* the same title and link as ItemAlpha, written differently
ItemAlphaAgain ==
    Row(FALSE, <<Cell("", <<Anchor(" ALPHA ", " a.aspx?prid=1 "),
                            Anchor("120 kb", "a.aspx?dl=2"),
                            ImgAnchor("icon.aspx", "PDF icon", "i.gif")>>)>>)
\* one hyperlink only, whose href is a pdf and whose text embeds a date
ItemBeta == Row(FALSE, <<Cell("", <<Anchor("Beta 5 Jan 2026", "docs/b.pdf")>>)>>)
ItemGamma == Row(FALSE, <<Cell("", <<Anchor("Gamma", "g.aspx")>>)>>)
\* a hyperlink without href
ItemNoLink == Row(FALSE, <<Cell("", <<Anchor("Delta", NONE)>>)>>)
\* a hyperlink without text and without href
ItemBlank == Row(FALSE, <<Cell("", <<Anchor("", NONE)>>)>>)
\* a title that pandas reads back as NaN
ItemNA == Row(FALSE, <<Cell("", <<Anchor("NA", "na.aspx")>>)>>)

AllRows ==
    {ThRow, ThDateRow, HeaderDec, HeaderJan, HeaderBad, NoteRow, PlainRow,
     ItemAlpha, ItemAlphaAgain, ItemBeta, ItemGamma, ItemNoLink, ItemBlank,
     ItemNA}

\* The rows are few, so what the loop body computes from a row is tabulated
\* once: RowKind, HeaderDate, and ItemTuple under each header date
\* (TLC keeps [x \in S |-> e] unevaluated and evaluates e at each
\* application; Tabulate(f) is f as an explicit table)
RECURSIVE TabulateOn(_, _)
TabulateOn(f, S) ==
    IF S = {} THEN <<>>
    ELSE LET x == CHOOSE y \in S : TRUE
         IN  (x :> f[x]) @@ TabulateOn(f, S \ {x})
Tabulate(f) == TabulateOn(f, DOMAIN f)

RowKindOf == Tabulate([r \in AllRows |-> RowKind(r)])
HeaderDateOf ==
    Tabulate([r \in AllRows |-> IF RowKind(r) = "header" THEN HeaderDate(r) ELSE NONE])
HeaderDates == {NONE} \cup {HeaderDateOf[r] : r \in AllRows}
ItemRows == {r \in AllRows : RowKindOf[r] = "item"}
ItemTupleOf == Tabulate([rd \in ItemRows \X HeaderDates |-> ItemTuple(rd[1], rd[2])])
RawTuples == {ItemTupleOf[rd] : rd \in ItemRows \X HeaderDates}

\* a variant whose cap test is off by one: it stops after limit + 1 items
RowStepOffByOne(st, tr, lim) ==
    LET kind == RowKindOf[tr]
    IN  CASE kind = "header" -> [st EXCEPT !.current_date = HeaderDateOf[tr]]
          [] kind = "item" ->
                LET res == Append(st.results, ItemTupleOf[<<tr, st.current_date>>])
                IN  [st EXCEPT !.results = res, !.stopped = Len(res) > lim]
          [] OTHER -> st

\* one pass of the loop body (lines 159-203) over the traversal's state
RowStep(st, tr, lim) ==
    LET kind == RowKindOf[tr]
    IN  CASE kind = "header" -> [st EXCEPT !.current_date = HeaderDateOf[tr]]
          [] kind = "item" ->
                LET res == Append(st.results, ItemTupleOf[<<tr, st.current_date>>])
                IN  [st EXCEPT !.results = res, !.stopped = Len(res) >= lim]
          [] OTHER -> st

RECURSIVE ScanRows(_, _, _, _)
ScanRows(t, k, st, lim) ==
    IF k > Len(t) \/ st.stopped THEN st
    ELSE ScanRows(t, k + 1, RowStep(st, t[k], lim), lim)

extract_rows_from_table(t, lim) ==
    ScanRows(t, 1, [current_date |-> NONE, results |-> <<>>, stopped |-> FALSE],
             lim).results

(***************************************************************************)
(* FILENAME (title+date)                                                   *)
(***************************************************************************)
\* re.sub(r'[^a-z0-9]+', '_', s); a run of separators yields one underscore
RECURSIVE SubNonAlnum(_, _)
SubNonAlnum(s, inRun) ==
    IF s = "" THEN ""
    ELSE IF Head(s) \in Digits \cup LowerLetters
         THEN Head(s) \o SubNonAlnum(Tail(s), FALSE)
         ELSE (IF inRun THEN "" ELSE "_") \o SubNonAlnum(Tail(s), TRUE)

RECURSIVE StripChars(_, _)
StripChars(s, chars) ==
    IF s = "" THEN ""
    ELSE IF Head(s) \in chars THEN StripChars(Tail(s), chars)
    ELSE IF Char(s, Len(s)) \in chars
         THEN StripChars(SubSeq(s, 1, Len(s) - 1), chars)
    ELSE s

RECURSIVE str_rstrip_chars(_, _)
str_rstrip_chars(s, chars) ==
    IF s = "" THEN ""
    ELSE IF Char(s, Len(s)) \in chars
         THEN str_rstrip_chars(SubSeq(s, 1, Len(s) - 1), chars)
    ELSE s

slugify_for_filename(s, maxlen) ==
    IF s = "" THEN ""
    ELSE LET t == StripChars(SubNonAlnum(str_lower(s), FALSE), {"_"})
         IN  IF Len(t) > maxlen THEN SubSeq(t, 1, maxlen) ELSE t

make_pdf_filename_from_title_and_date(title, date_mmdd) ==
    LET base_title == IF title = NONE \/ title = "" THEN "rbi_press_release" ELSE title
        title_slug == slugify_for_filename(base_title, 100)
        date_part == IF date_mmdd = NONE \/ date_mmdd = "" THEN "no-date" ELSE date_mmdd
        filename == title_slug \o "_" \o date_part \o ".pdf"
        cut == SubSeq(filename, 1, 160)
    IN  IF Len(filename) > 160
        THEN IF Len(cut) >= 4 /\ str_lower(SubSeq(cut, Len(cut) - 3, Len(cut))) = ".pdf"
             THEN cut
             ELSE str_rstrip_chars(cut, {".", "_", "-"}) \o ".pdf"
        ELSE filename

\* lines 314-334
ParseItem(raw) ==
    LET parsed_date == parse_date_to_mmddyyyy(raw.date_text)
    IN  [date |-> parsed_date,
         title |-> raw.title,
         link |-> raw.link,
         pdf_link |-> raw.pdf_link,
         pdf_filename |->
            IF raw.pdf_link # NONE
            THEN make_pdf_filename_from_title_and_date(raw.title, parsed_date)
            ELSE ""]

\* ParseItem, tabulated over the tuples the rows can yield
ParseItemOf == Tabulate([raw \in RawTuples |-> ParseItem(raw)])

ParseItems(raws) == [k \in 1..Len(raws) |-> ParseItemOf[raws[k]]]

(***************************************************************************)
(* MASTER CSV HANDLING                                                     *)
(*                                                                         *)
(* The file data/rbi_master.csv is whether it exists and its data rows, a  *)
(* row being the text of its nine cells.  A DataFrame is a sequence of     *)
(* rows whose values are strings, NONE or NAN.                             *)
(***************************************************************************)
\* DataFrame.to_csv: None and NaN are written as the empty cell
CsvCell(v) == IF v = NONE \/ v = NAN THEN "" ELSE v
to_csv(df) ==
    [exists |-> TRUE,
     rows |-> [k \in 1..Len(df) |-> [c \in DOMAIN df[k] |-> CsvCell(df[k][c])]]]

\* pandas.read_csv(dtype=str): a cell that is one of the default NA markers
\* is read back as NaN
NA_VALUES ==
    {"", "#N/A", "#N/A N/A", "#NA", "-1.#IND", "-1.#QNAN", "-NaN", "-nan",
     "1.#IND", "1.#QNAN", "<NA>", "N/A", "NA", "NULL", "NaN", "n/a", "nan",
     "null"}
CsvValue(cell) == IF cell \in NA_VALUES THEN NAN ELSE cell
read_csv(file) ==
    [k \in 1..Len(file.rows) |-> [c \in DOMAIN file.rows[k] |-> CsvValue(file.rows[k][c])]]

\* read_ok: whether pd.read_csv returned (it raises on a file it cannot
\* parse).  Every file this program writes has all the columns of CSV_HEADER.
load_master_csv(file, read_ok) ==
    IF ~file.exists THEN <<>>
    ELSE IF read_ok THEN read_csv(file)
    ELSE <<>>

\* str(v) of a DataFrame value
PyStr(v) == IF v = NAN THEN "nan" ELSE v

\* norm of lines 258-261
norm(v) == IF v = NAN THEN "" ELSE normalize_title(PyStr(v))

entry_exists(df, title, link) ==
    LET norm_title == normalize_title(IF title = NONE THEN "" ELSE title)
        lnk == str_strip(IF link = NONE THEN "" ELSE link)
    IN  \E k \in 1..Len(df) :
            /\ norm(df[k].title) = norm_title
            /\ str_strip(PyStr(df[k].link)) = lnk

\* hashlib.sha256 of the joined parts: an injective function of its input
sha256_hexdigest(text) == "sha256(" \o text \o ")"

generate_id(title, link, date_) ==
    sha256_hexdigest(
        normalize_title(IF title = NONE THEN "" ELSE title) \o "|"
        \o (IF link = NONE THEN "" ELSE link) \o "|"
        \o (IF date_ = NONE THEN "" ELSE date_))

\* datetime.now(IST).isoformat() at the clock's n-th tick
now_ist_iso(n) == "2026-01-0" \o Char("123456789", n) \o "T09:00:00+05:30"

\* lines 355-365 and 368-376
MasterRow(it, created_at) ==
    [id |-> generate_id(it.title, it.link, it.date),
     date |-> it.date,
     title |-> it.title,
     link |-> it.link,
     pdf_link |-> it.pdf_link,
     pdf_filename |-> it.pdf_filename,
     pdf_downloaded |-> "False",
     source_page |-> SOURCE_PAGE,
     created_at |-> created_at]

JsonItem(it) ==
    [id |-> generate_id(it.title, it.link, it.date),
     title |-> it.title,
     link |-> it.link,
     pdf_link |-> it.pdf_link,
     date |-> it.date,
     pdf_filename |-> it.pdf_filename,
     source_page |-> SOURCE_PAGE]

\* lines 340-350: the items the loop does not skip as duplicates
NewItems(df, parsed) ==
    SelectSeq(parsed, LAMBDA it : ~entry_exists(df, it.title, it.link))

(***************************************************************************)
(* Page snapshots                                                          *)
(***************************************************************************)
LayoutTable == <<PlainRow>>
Pages ==
    {<<LayoutTable>>,
     <<LayoutTable, <<HeaderJan, ItemAlpha, ItemGamma>>>>,
     <<<<ThRow, HeaderDec, ItemAlpha, HeaderBad, ItemAlphaAgain>>>>,
     <<<<ItemNoLink, HeaderBad, ItemGamma>>>>,
     <<<<ItemBlank, ItemNA, ItemBeta>>>>,
     <<<<ThRow, NoteRow>>>>}

MaxRows == 3
MaxRuns == 3

RECURSIVE SeqsUpTo(_, _)
SeqsUpTo(S, n) ==
    IF n = 0 THEN {<<>>}
    ELSE LET shorter == SeqsUpTo(S, n - 1)
         IN  shorter \cup {Append(q, e) : q \in {r \in shorter : Len(r) = n - 1}, e \in S}

(***************************************************************************)
(* State                                                                   *)
(***************************************************************************)
VARIABLES
    \* one run of main
    pc,              \* the state of the run: IDLE before the first run
    page,            \* the snapshot the site serves to this run
    html,            \* the fetched page
    table,           \* the located table
    raw_rows,
    parsed_items,
    master_df,
    new_rows,
    new_json_items,
    exit_code,       \* -1 while no run has exited
    \* what outlives a run
    master_csv,      \* data/rbi_master.csv
    new_json,        \* data/rbi_new_entries.json
    clock,
    runs,
    \* history of the run, for the properties
    store_before,    \* master_csv when the run started
    read_failed,     \* pd.read_csv raised in this run
    fetch_failed,
    prev_page,       \* the page of the run before this one
    prev_done,       \* the run before this one ended DONE
    json_before,     \* new_json when the run started
    seen_exits,      \* the <<outcome, exit code>> pairs of the runs so far
    \* one traversal of extract_rows_from_table, row by row
    tbl, limit, rowIdx, current_date, results, stopped, xpc, x_items,
    srcRows          \* history: the row each result was emitted from

runVars ==
    <<pc, page, html, table, raw_rows, parsed_items, master_df, new_rows,
      new_json_items, exit_code>>
fileVars == <<master_csv, new_json>>
histVars ==
    <<store_before, read_failed, fetch_failed, prev_page, prev_done, json_before,
      seen_exits>>
mainVars == <<runVars, fileVars, clock, runs, histVars>>
scanVars == <<tbl, limit, rowIdx, current_date, results, stopped, xpc, x_items, srcRows>>
vars == <<mainVars, scanVars>>

NO_FILE == [exists |-> FALSE, rows |-> <<>>]
NO_JSON == [written |-> FALSE, items |-> <<>>]
NO_PAGE == <<>>

MainInit ==
    /\ pc = "IDLE"
    /\ page = NO_PAGE
    /\ html = NO_PAGE
    /\ table = NO_TABLE
    /\ raw_rows = <<>>
    /\ parsed_items = <<>>
    /\ master_df = <<>>
    /\ new_rows = <<>>
    /\ new_json_items = <<>>
    /\ exit_code = -1
    /\ master_csv = NO_FILE
    /\ new_json = NO_JSON
    /\ clock = 1
    /\ runs = 0
    /\ store_before = NO_FILE
    /\ read_failed = FALSE
    /\ fetch_failed = FALSE
    /\ prev_page = NO_PAGE
    /\ prev_done = FALSE
    /\ json_before = NO_JSON
    /\ seen_exits = {}

ScanInit(t, n) ==
    /\ tbl = t
    /\ limit = n
    /\ rowIdx = 1
    /\ current_date = NONE
    /\ results = <<>>
    /\ stopped = FALSE
    /\ xpc = "scan"
    /\ x_items = <<>>
    /\ srcRows = <<>>

(***************************************************************************)
(* main, step by step                                                      *)
(***************************************************************************)
\* the scheduler starts a run; the site serves one of the snapshots
StartRun ==
    /\ pc \in {"IDLE", "DONE", "FAILED"}
    /\ runs < MaxRuns
    /\ \E p \in Pages : page' = p
    /\ pc' = "FETCHING"
    /\ runs' = runs + 1
    /\ clock' = clock + 1
    /\ html' = NO_PAGE
    /\ table' = NO_TABLE
    /\ raw_rows' = <<>>
    /\ parsed_items' = <<>>
    /\ master_df' = <<>>
    /\ new_rows' = <<>>
    /\ new_json_items' = <<>>
    /\ exit_code' = -1
    /\ store_before' = master_csv
    /\ read_failed' = FALSE
    /\ fetch_failed' = FALSE
    /\ prev_page' = page
    /\ prev_done' = (pc = "DONE")
    /\ json_before' = new_json
    /\ UNCHANGED <<fileVars, seen_exits, scanVars>>

\* json.dump(items, open(NEW_JSON, "w"))
WriteNewJson(items) == new_json' = [written |-> TRUE, items |-> items]

\* sys.exit(code); outcome names which of the four ends of main this is
Exit(outcome, code) ==
    /\ exit_code' = code
    /\ seen_exits' = seen_exits \cup {<<outcome, code>>}

\* lines 294-295
FetchOk ==
    /\ pc = "FETCHING"
    /\ html' = page
    /\ pc' = "LOCATING"
    /\ UNCHANGED <<page, table, raw_rows, parsed_items, master_df, new_rows,
                   new_json_items, exit_code, fileVars, clock, runs, histVars,
                   scanVars>>

\* lines 296-300
FetchFail ==
    /\ pc = "FETCHING"
    /\ WriteNewJson(<<>>)
    /\ Exit("fetch failed", 2)
    /\ pc' = "FAILED"
    /\ fetch_failed' = TRUE
    /\ UNCHANGED <<page, html, table, raw_rows, parsed_items, master_df,
                   new_rows, new_json_items, master_csv, clock, runs,
                   store_before, read_failed, prev_page, prev_done, json_before,
                   scanVars>>

\* lines 302-303, a table found
LocateFound ==
    /\ pc = "LOCATING"
    /\ find_first_populated_table(html) # NO_TABLE
    /\ table' = find_first_populated_table(html)
    /\ pc' = "EXTRACTING"
    /\ UNCHANGED <<page, html, raw_rows, parsed_items, master_df, new_rows,
                   new_json_items, exit_code, fileVars, clock, runs, histVars,
                   scanVars>>

\* a variant that exits with the status of a failed fetch
LocateNoneExit2 ==
    /\ pc = "LOCATING"
    /\ find_first_populated_table(html) = NO_TABLE
    /\ WriteNewJson(<<>>)
    /\ Exit("no table", 2)
    /\ pc' = "FAILED"
    /\ UNCHANGED <<page, html, table, raw_rows, parsed_items, master_df,
                   new_rows, new_json_items, master_csv, clock, runs,
                   store_before, read_failed, fetch_failed, prev_page, prev_done,
                   json_before, scanVars>>

\* lines 302-308, no table found
LocateNone ==
    /\ pc = "LOCATING"
    /\ find_first_populated_table(html) = NO_TABLE
    /\ WriteNewJson(<<>>)
    /\ Exit("no table", 3)
    /\ pc' = "FAILED"
    /\ UNCHANGED <<page, html, table, raw_rows, parsed_items, master_df,
                   new_rows, new_json_items, master_csv, clock, runs,
                   store_before, read_failed, fetch_failed, prev_page, prev_done,
                   json_before, scanVars>>

\* line 310
Extract ==
    /\ pc = "EXTRACTING"
    /\ raw_rows' = extract_rows_from_table(table, MAX_ENTRIES)
    /\ pc' = "NORMALIZING"
    /\ UNCHANGED <<page, html, table, parsed_items, master_df, new_rows,
                   new_json_items, exit_code, fileVars, clock, runs, histVars,
                   scanVars>>

\* lines 314-334
Normalize ==
    /\ pc = "NORMALIZING"
    /\ parsed_items' = ParseItems(raw_rows)
    /\ pc' = "DEDUPING"
    /\ UNCHANGED <<page, html, table, raw_rows, master_df, new_rows,
                   new_json_items, exit_code, fileVars, clock, runs, histVars,
                   scanVars>>

\* a variant in which a read error of the store aborts the run
DedupAbortOnReadError ==
    /\ pc = "DEDUPING"
    /\ \E read_ok \in (IF master_csv.exists THEN BOOLEAN ELSE {TRUE}) :
        LET df == load_master_csv(master_csv, read_ok)
            fresh == NewItems(df, parsed_items)
        IN  /\ master_df' = df
            /\ new_rows' = [k \in 1..Len(fresh) |-> MasterRow(fresh[k], now_ist_iso(clock))]
            /\ new_json_items' = [k \in 1..Len(fresh) |-> JsonItem(fresh[k])]
            /\ read_failed' = ~read_ok
            /\ pc' = IF read_ok THEN "PERSISTING" ELSE "FAILED"
    /\ UNCHANGED <<page, html, table, raw_rows, parsed_items, exit_code,
                   fileVars, clock, runs, store_before, fetch_failed, prev_page,
                   prev_done, json_before, seen_exits, scanVars>>

\* lines 336-377; pd.read_csv of an existing file returns or raises
Dedup ==
    /\ pc = "DEDUPING"
    /\ \E read_ok \in (IF master_csv.exists THEN BOOLEAN ELSE {TRUE}) :
        LET df == load_master_csv(master_csv, read_ok)
            fresh == NewItems(df, parsed_items)
        IN  /\ master_df' = df
            /\ new_rows' = [k \in 1..Len(fresh) |-> MasterRow(fresh[k], now_ist_iso(clock))]
            /\ new_json_items' = [k \in 1..Len(fresh) |-> JsonItem(fresh[k])]
            /\ read_failed' = ~read_ok
    /\ pc' = "PERSISTING"
    /\ UNCHANGED <<page, html, table, raw_rows, parsed_items, exit_code,
                   fileVars, clock, runs, store_before, fetch_failed, prev_page,
                   prev_done, json_before, seen_exits, scanVars>>

\* lines 380-388
PersistNew ==
    /\ pc = "PERSISTING"
    /\ new_rows # <<>>
    /\ master_df' = master_df \o new_rows
    /\ master_csv' = to_csv(master_df \o new_rows)
    /\ WriteNewJson(new_json_items)
    /\ Exit("persisted new entries", 0)
    /\ pc' = "DONE"
    /\ UNCHANGED <<page, html, table, raw_rows, parsed_items, new_rows,
                   new_json_items, clock, runs, store_before, read_failed,
                   fetch_failed, prev_page, prev_done, json_before, scanVars>>

\* a variant that leaves the new-entries file as it is when nothing is new
PersistNoneStale ==
    /\ pc = "PERSISTING"
    /\ new_rows = <<>>
    /\ Exit("nothing new", 0)
    /\ pc' = "DONE"
    /\ UNCHANGED <<page, html, table, raw_rows, parsed_items, master_df,
                   new_rows, new_json_items, fileVars, clock, runs,
                   store_before, read_failed, fetch_failed, prev_page, prev_done,
                   json_before, scanVars>>

\* lines 389-393
PersistNone ==
    /\ pc = "PERSISTING"
    /\ new_rows = <<>>
    /\ WriteNewJson(<<>>)
    /\ Exit("nothing new", 0)
    /\ pc' = "DONE"
    /\ UNCHANGED <<page, html, table, raw_rows, parsed_items, master_df,
                   new_rows, new_json_items, master_csv, clock, runs,
                   store_before, read_failed, fetch_failed, prev_page, prev_done,
                   json_before, scanVars>>

RunStep ==
    \/ FetchOk
    \/ FetchFail
    \/ LocateFound
    \/ LocateNone
    \/ Extract
    \/ Normalize
    \/ Dedup
    \/ PersistNew
    \/ PersistNone

Init == MainInit /\ ScanInit(NO_TABLE, MAX_ENTRIES)
Next == StartRun \/ RunStep
Spec == Init /\ [][Next]_vars

\* main runs to its exit once started: it is sequential and blocks nowhere
\* but in the fetch, which returns or raises within its timeout of 30 s.
\* Advance is main moving on from a stage of a started run; under Spec its
\* steps are the RunStep steps, one of which is possible at every such stage.
Stages ==
    {"FETCHING", "LOCATING", "EXTRACTING", "NORMALIZING", "DEDUPING", "PERSISTING"}
Advance == pc \in Stages /\ pc' \in Stages \cup {"DONE", "FAILED"} /\ pc' # pc
FairSpec == Spec /\ WF_pc(Advance)

(***************************************************************************)
(* extract_rows_from_table, row by row, then the normalisation of main     *)
(***************************************************************************)
Scanning == xpc = "scan" /\ rowIdx <= Len(tbl) /\ ~stopped

ScanRow(kind) ==
    /\ Scanning
    /\ RowKindOf[tbl[rowIdx]] = kind
    /\ LET st == RowStep([current_date |-> current_date, results |-> results,
                          stopped |-> stopped], tbl[rowIdx], limit)
       IN  /\ current_date' = st.current_date
           /\ results' = st.results
           /\ stopped' = st.stopped
           /\ srcRows' = IF Len(st.results) > Len(results)
                         THEN Append(srcRows, rowIdx) ELSE srcRows
    /\ rowIdx' = rowIdx + 1
    /\ UNCHANGED <<tbl, limit, xpc, x_items, mainVars>>

ScanTh == ScanRow("th")
ScanHeader == ScanRow("header")
ScanSkip == ScanRow("skip")
ScanItem == ScanRow("item")

\* the loop ends (rows exhausted, or the break of line 203) and results is
\* returned
ScanEnd ==
    /\ xpc = "scan"
    /\ ~Scanning
    /\ xpc' = "normalize"
    /\ UNCHANGED <<tbl, limit, rowIdx, current_date, results, stopped, x_items,
                   srcRows, mainVars>>

NormalizeScanned ==
    /\ xpc = "normalize"
    /\ x_items' = ParseItems(results)
    /\ xpc' = "done"
    /\ UNCHANGED <<tbl, limit, rowIdx, current_date, results, stopped, srcRows,
                   mainVars>>

InitExtract ==
    /\ MainInit
    /\ \E t \in SeqsUpTo(AllRows, MaxRows), n \in 1..MaxRows : ScanInit(t, n)
NextExtract ==
    \/ ScanTh
    \/ ScanHeader
    \/ ScanSkip
    \/ ScanItem
    \/ ScanEnd
    \/ NormalizeScanned
SpecExtract == InitExtract /\ [][NextExtract]_vars

(***************************************************************************)
(* Properties of the row extractor, checked under SpecExtract              *)
(***************************************************************************)
\* a row that holds a hyperlink and no header-style cell
IsItemRow(tr) == ~tr.th /\ tr_find_all_a(tr) # <<>>
ItemRowIdx(t) == {k \in 1..Len(t) : IsItemRow(t[k])}

Min(a, b) == IF a <= b THEN a ELSE b

\* the n smallest members of a set of numbers, ascending
RECURSIVE FirstN(_, _)
FirstN(S, n) ==
    IF n = 0 \/ S = {} THEN <<>>
    ELSE <<SetMin(S)>> \o FirstN(S \ {SetMin(S)}, n - 1)

\* for a finished traversal, the row the last item came from (0: no item)
LastEmitted == IF srcRows = <<>> THEN 0 ELSE srcRows[Len(srcRows)]

\* C7: for every table and every cap N >= 1 the traversal returns exactly
\* min(N, number of item rows) items, they come from the first such rows in
\* table order, each carrying its row's title hyperlink, and the rows after
\* the last emitted one have no effect: the table cut after that row yields
\* the same result.
C7_FirstNItemRows ==
    xpc # "scan" =>
        /\ Len(results) = Min(limit, Cardinality(ItemRowIdx(tbl)))
        /\ Len(results) <= limit
        /\ srcRows = FirstN(ItemRowIdx(tbl), limit)
        /\ \A k \in 1..Len(results) :
            /\ results[k].title = ItemTupleOf[<<tbl[srcRows[k]], NONE>>].title
            /\ results[k].link = ItemTupleOf[<<tbl[srcRows[k]], NONE>>].link
        /\ results = extract_rows_from_table(SubSeq(tbl, 1, LastEmitted), limit)
        /\ results = extract_rows_from_table(tbl, limit)

\* the traversal stopped at the cap with item rows left unread
C7_Witness ==
    /\ xpc = "done"
    /\ stopped
    /\ Len(results) = limit
    /\ \E k \in ItemRowIdx(tbl) : k > LastEmitted

\* the text a row sets as header date when it qualifies as a header
HeaderTextOf == Tabulate([r \in AllRows |-> HeaderDate(r)])
QualifiesAsHeader(tr) ==
    ~tr.th /\ tr_find_all_a(tr) = <<>> /\ HeaderTextOf[tr] # NONE

\* the header date in effect when row k of t is reached
HeaderInEffect(t, k) ==
    LET hs == {j \in 1..(k - 1) : QualifiesAsHeader(t[j])}
    IN  IF hs = {} THEN NONE ELSE HeaderTextOf[t[SetMax(hs)]]

\* C8: at every point of a traversal the current header date is the text of
\* the most recent hyperlink-free, non-th row read so far whose full text or,
\* failing that, one of whose cells is date-like and at most 40 characters
\* (unset when there is none: rows that do not qualify leave it unchanged),
\* and every item emitted after such a header carries that header's text as
\* its date text, whatever date the item row itself holds.
C8_HeaderDateCarried ==
    /\ current_date = HeaderInEffect(tbl, rowIdx)
    /\ \A k \in 1..Len(results) :
        HeaderInEffect(tbl, srcRows[k]) # NONE =>
            results[k].date_text = HeaderInEffect(tbl, srcRows[k])

\* an item row with a date cell of its own took the date of the second of
\* two headers
C8_Witness ==
    /\ xpc = "done"
    /\ Len(tbl) = 3
    /\ tbl[1] = HeaderDec
    /\ tbl[2] = HeaderJan
    /\ tbl[3] = ItemAlpha
    /\ Len(results) = 1
    /\ results[1].date_text = "5 Jan 2026"

\* C9: every item the row extractor emits has at least one of title, link and
\* date text present; a row whose first hyperlink has neither text nor href,
\* under no header date and with no date-like cell, yields no item.
C9_SomeFieldPresent ==
    \A k \in 1..Len(results) :
        results[k].title # NONE \/ results[k].link # NONE \/ results[k].date_text # NONE

\* the anchors of a row a document link may come from, as the claim has it
\* (all but the first) and as the code has it (all)
AnchorsAfterFirst(tr) == SelectSeq(Tail(tr_find_all_a(tr)), LAMBDA a : a.href # NONE)
AnchorsWithHref(tr) == SelectSeq(tr_find_all_a(tr), LAMBDA a : a.href # NONE)

\* the document link by the priority href contains .pdf, then icon image
\* mentions pdf, then text mentions pdf or kb, first match winning
DocLinkAmong(anchors) ==
    LET n == Len(anchors)
        byHref == {k \in 1..n : str_contains(str_lower(str_strip(anchors[k].href)), ".pdf")}
        byImg == {k \in 1..n :
                    /\ anchors[k].img
                    /\ \/ str_contains(str_lower(anchors[k].alt), "pdf")
                       \/ str_contains(str_lower(anchors[k].src), "pdf")}
        byText == {k \in 1..n :
                    /\ str_strip(anchors[k].href) # ""
                    /\ \/ WordSearch(a_get_text(anchors[k]), "pdf")
                       \/ WordSearch(a_get_text(anchors[k]), "kb")}
        pick == IF byHref # {} THEN SetMin(byHref)
                ELSE IF byImg # {} THEN SetMin(byImg)
                ELSE IF byText # {} THEN SetMin(byText)
                ELSE 0
    IN  IF pick = 0 THEN NONE ELSE urljoin(str_strip(anchors[pick].href))

DocLinkAfterFirstOf == Tabulate([r \in ItemRows |-> DocLinkAmong(AnchorsAfterFirst(r))])
DocLinkOf == Tabulate([r \in ItemRows |-> DocLinkAmong(AnchorsWithHref(r))])

\* C10 as stated: the document link of every emitted item is chosen among
\* the row's hyperlinks other than the first, so a row whose only hyperlink
\* is the title hyperlink has no document link and an empty filename.
C10_Original ==
    /\ \A k \in 1..Len(results) :
        results[k].pdf_link = DocLinkAfterFirstOf[tbl[srcRows[k]]]
    /\ \A k \in 1..Len(x_items) :
        Len(tr_find_all_a(tbl[srcRows[k]])) = 1 =>
            x_items[k].pdf_link = NONE /\ x_items[k].pdf_filename = ""

\* C10 amended: the document link of every emitted item is chosen among all
\* the row's hyperlinks that carry an href, the title hyperlink included, by
\* the priority href contains .pdf, then icon image mentions pdf, then text
\* mentions pdf or kb, first match winning; the filename is empty exactly
\* when there is no document link.
C10_Amended ==
    /\ \A k \in 1..Len(results) :
        results[k].pdf_link = DocLinkOf[tbl[srcRows[k]]]
    /\ \A k \in 1..Len(x_items) :
        /\ x_items[k].pdf_link = results[k].pdf_link
        /\ (x_items[k].pdf_filename = "") <=> (x_items[k].pdf_link = NONE)

\* a row whose only hyperlink is the title hyperlink, its href a .pdf, got
\* that hyperlink as document link and a filename
C10_Witness ==
    /\ xpc = "done"
    /\ \E k \in 1..Len(x_items) :
        /\ tbl[srcRows[k]] = ItemBeta
        /\ x_items[k].pdf_link = x_items[k].link
        /\ x_items[k].pdf_link # NONE
        /\ x_items[k].pdf_filename # ""

(***************************************************************************)
(* Properties of main, checked under Spec (C6 under FairSpec)              *)
(***************************************************************************)
Terminal == pc \in {"DONE", "FAILED"}

\* C1: a run that completes against the page the completed run before it
\* saw, on the store that run left (and read without error), adds no record
\* to the store and writes an empty new-entries array.
C1_RerunAddsNothing ==
    (pc = "DONE" /\ prev_done /\ prev_page = page /\ ~read_failed) =>
        /\ master_csv = store_before
        /\ new_json.items = <<>>

\* the match key of a record: normalised title and trimmed link, an absent
\* value counting as the empty text
KeyText(v) == IF v = NONE \/ v = NAN THEN "" ELSE v
DedupKey(r) == <<normalize_title(KeyText(r.title)), str_strip(KeyText(r.link))>>

\* C2: of the items of one run that share normalised title and trimmed link
\* at most one is classified as new, and none is when the store the run read
\* already holds a record with that key.
C2_AtMostOneNewPerKey ==
    pc \in {"PERSISTING", "DONE"} =>
        /\ \A i, j \in 1..Len(new_rows) :
            i # j => DedupKey(new_rows[i]) # DedupKey(new_rows[j])
        /\ ~read_failed =>
            \A i \in 1..Len(new_rows), j \in 1..Len(store_before.rows) :
                DedupKey(new_rows[i]) # DedupKey(store_before.rows[j])

\* C3: after every run, also one whose read of the store failed, the store
\* holds the records it held before the run, unmodified and in their order,
\* followed only by the records created in the run.
C3_AppendOnly ==
    Terminal =>
        /\ Len(store_before.rows) <= Len(master_csv.rows)
        /\ SubSeq(master_csv.rows, 1, Len(store_before.rows)) = store_before.rows
        /\ SubSeq(master_csv.rows, Len(store_before.rows) + 1, Len(master_csv.rows))
            = (IF master_csv = store_before THEN <<>> ELSE to_csv(new_rows).rows)

\* the DataFrame the run loaded, seen from a terminated run
LoadedDf == SubSeq(master_df, 1, Len(master_df) - Len(new_rows))

\* C4: a terminated run has rewritten the new-entries file, and the file
\* holds exactly the items the run classified as new, in page order: the
\* empty array after a failed fetch, when no table was found and when nothing
\* is new.
C4_NewEntriesRewritten ==
    Terminal =>
        /\ new_json.written
        /\ pc = "FAILED" => new_json.items = <<>>
        /\ pc = "DONE" =>
            /\ new_json.items = new_json_items
            /\ new_json.items =
                [k \in 1..Len(NewItems(LoadedDf, parsed_items)) |->
                    JsonItem(NewItems(LoadedDf, parsed_items)[k])]
            /\ new_rows = <<>> => new_json.items = <<>>

\* a run ended with an empty new-entries file where the run before had left
\* items in it
C4_Witness ==
    /\ Terminal
    /\ json_before.items # <<>>
    /\ new_json.items = <<>>
    /\ parsed_items # <<>>

\* C5 as stated: no two of the four outcomes end with the same exit status.
C5_Original ==
    \A a, b \in seen_exits : a[1] # b[1] => a[2] # b[2]

ExitStatusOf(outcome) ==
    CASE outcome = "fetch failed" -> 2
      [] outcome = "no table" -> 3
      [] OTHER -> 0

\* C5 amended: a failed fetch exits with 2, no table found with 3, and a run
\* that completes with 0, whether it persisted new entries or found nothing
\* new; these two outcomes differ in the new-entries file (items or none),
\* not in the exit status.
C5_Amended ==
    /\ \A e \in seen_exits : e[2] = ExitStatusOf(e[1])
    /\ pc = "FAILED" => exit_code = (IF fetch_failed THEN 2 ELSE 3)
    /\ pc = "DONE" => exit_code = 0 /\ (new_rows # <<>> <=> new_json.items # <<>>)

\* both outcomes of a completed run have been seen, each with status 0
C5_Witness ==
    /\ <<"nothing new", 0>> \in seen_exits
    /\ <<"persisted new entries", 0>> \in seen_exits
    /\ <<"no table", 3>> \in seen_exits

\* what C6 says of a terminated run
C6_TerminalState ==
    Terminal =>
        /\ pc = "FAILED" <=> (fetch_failed \/ find_first_populated_table(page) = NO_TABLE)
        /\ pc = "FAILED" => master_csv = store_before /\ raw_rows = <<>>
        /\ pc = "DONE" =>
            /\ raw_rows = extract_rows_from_table(find_first_populated_table(page), MAX_ENTRIES)
            /\ Len(parsed_items) = Len(raw_rows)

\* C6: a run ends FAILED exactly when the fetch fails or no table with a
\* hyperlink is found, and then leaves the store as it was; every started
\* run terminates, and a run whose table was found reaches DONE, also when
\* no date parses and when the store is missing or unreadable.
C6_FailedOnlyOnAbort ==
    /\ []C6_TerminalState
    /\ (pc = "FETCHING") ~> Terminal
    /\ (pc = "EXTRACTING") ~> (pc = "DONE")

\* a run reached DONE although the store could not be read and no date of
\* its items parsed
C6_Witness ==
    /\ pc = "DONE"
    /\ read_failed
    /\ parsed_items # <<>>
    /\ \A k \in 1..Len(parsed_items) : parsed_items[k].date = NONE
    /\ \E k \in 1..Len(raw_rows) : raw_rows[k].date_text # NONE

====
